---- MODULE Spec2Model ----
(***************************************************************************)
(* Appointment engine of the Renova Hospitals voice agent: availability    *)
(* checking, the check-then-commit booking handler, cancellation and the   *)
(* per-session call record, as they are written in the implementation      *)
(* document of the repository (src/unnamed/part_001).                      *)
(*                                                                         *)
(* Times are minutes since midnight, dates are day numbers whose weekday   *)
(* is date % 7 (0 = Monday .. 6 = Sunday).  The calendar is the shared     *)
(* Google calendar 'primary'; it is used by every session, and sessions    *)
(* are served by two server processes (web on 8090, phone on 8091), so the *)
(* remote calls of one booking interleave with those of another.           *)
(***************************************************************************)
EXTENDS Integers, Sequences, FiniteSets, Bags, TLC

\* ---------------------------------------------------------------- bounds

\* Number of bookings that may pass the verify step in one run.
MaxBookings == 2
\* Number of rows the Patients sheet may grow to in one run.
MaxRows == 3
\* Number of sessions that may be created beyond max_sessions in one run.
ExtraSessions == 1
\* Number of requests that reach the Twilio proxy functions in one run.
MaxRequests == 2
\* Number of startCall invocations of a hook in one run.
MaxCalls == 2
\* Number of signaling WebSockets useWebRTCClient creates in one run.
MaxSockets == 2

\* ------------------------------------------------------ program constants

\* duration_minutes / duration default (check_availability signature).
DefaultDuration == 30
\* Working-hours window of the documentation: 9 AM - 6 PM.
WorkStart == 9 * 60
WorkEnd == 18 * 60
\* Alternatives: 5 suggestions within 7 days, on a 30 minute grid.
SuggestCount == 5
\* useWebRTCClient: maxReconnectAttempts
maxReconnectAttempts == 5
\* SessionManager.max_sessions
max_sessions == 50
WindowDays == 7
SlotStep == 30
\* Sunday is the only non-working weekday (Monday-Saturday are worked).
Sunday == 6
\* Tolerance for matching an existing appointment on cancellation.
CancelTolerance == 15
MinutesPerDay == 24 * 60

\* ------------------------------------------------------------ input sets

Sessions == {"s1", "s2"}
Doctors == {"DrRao"}
\* The day on which the calls are made (datetime.now()): a Saturday.
Today == 5
\* Dates and times asked of check_availability: on that Saturday 09:00, 09:30
\* (touches the 09:00 slot) and 18:00 (closing time), 09:00 on the Sunday
\* after it, and 09:00 on the Friday before it (a past date).
CheckSlots == {<<5, 540>>, <<5, 570>>, <<5, 1080>>, <<6, 540>>, <<4, 540>>}
\* Dates and times callers book and cancel.
BookDates == {5}
BookTimes == {540, 570}
\* Durations a caller may ask check_availability for.
Durations == {30, 45}
\* The longer duration is asked for the first slot of the Saturday, where it
\* runs into the slot after it.
DurationsAt(slot) == IF slot = <<Today, WorkStart>> THEN Durations ELSE {DefaultDuration}

\* Each session is one caller.
PatientName(s) == IF s = "s1" THEN "Asha" ELSE "Ravi"
PatientPhone(s) == IF s = "s1" THEN "P1" ELSE "P2"
\* The phone numbers a caller books under: the caller's own, and for the first
\* caller also the number of the second (a shared household number).
CallerPhones(s) == IF s = "s1" THEN {"P1", "P2"} ELSE {"P2"}
PatientEmail(s) == IF s = "s1" THEN "asha@mail" ELSE "ravi@mail"
\* The caller's name as it is transcribed on a cancellation, in another case.
SpokenName(s) == IF s = "s1" THEN "ASHA" ELSE "ravi"
\* A cancellation that names no doctor, or gives no email.
AnyDoctor == ""
\* department: an argument the booking of the model never supplies
NoDepartment == ""
NoEmail == ""
\* What callers ask to cancel: the time of the appointment or a time 10, 15 or
\* 20 minutes off it, under the name of the booking, the same name in another
\* case or another name, with or without the doctor and the email.
CancelRequests(s) ==
    { [name |-> PatientName(s), time |-> 540, doctor |-> "DrRao", email |-> NoEmail],
      [name |-> SpokenName(s), time |-> 550, doctor |-> AnyDoctor,
       email |-> PatientEmail(s)],
      [name |-> PatientName(s), time |-> 555, doctor |-> "DrRao", email |-> NoEmail],
      [name |-> PatientName(s), time |-> 590, doctor |-> "DrRao", email |-> NoEmail],
      [name |-> "Meera", time |-> 540, doctor |-> "DrRao", email |-> NoEmail],
      [name |-> PatientName(s), time |-> 540, doctor |-> "DrRao",
       email |-> "meera@mail"],
      [name |-> PatientName(s), time |-> 540, doctor |-> "DrIyer", email |-> NoEmail] }
\* arguments of a function call without any key
NoArguments == [key \in {} |-> ""]
\* The arguments of the function calls that update the call record of a
\* session without booking: all of name, department and doctor, the name
\* alone, the email alone, another department alone.
UpdateArguments(s) ==
    { ("patient_name" :> PatientName(s)) @@ ("department" :> "Cardiology")
          @@ ("doctor_name" :> "DrRao"),
      ("patient_name" :> PatientName(s)),
      ("email" :> PatientEmail(s)),
      ("department" :> "Dental") }
\* The function calls that carry them.
UpdateFunctions == {"check_appointment_availability", "log_call_information"}
\* The requests of the Twilio proxy, the methods they come with and the
\* bodies the local server answers with.
RequestIds == 1..MaxRequests
Methods == {"POST", "GET", "OPTIONS"}
UpstreamBodies == {"<Response/>", "{}"}
\* Phones that already have a row in the Patients sheet.
SheetPhones == {"P2"}
\* The rows of the Patients sheet at start-up, oldest first.
InitialSheet == <<[phone |-> "P2", name |-> "Ravi", email |-> "ravi@old"]>>

VARIABLES
    events,               \* bag of events of the shared calendar
    pc,                   \* per session: position inside handle_book_appointment
    req,                  \* per session: patient_data and verify answer of the booking in flight
    session_call_records, \* session id -> CallRecord
    patient_database,     \* phone -> patient_info cached in session memory
    patient_sheet,        \* rows of the Patients sheet, in the order appended
    active_sessions,      \* ids of the sessions of active_sessions
    saved_call_records,   \* rows written by _save_call_record, in order
    sentMail,             \* confirmation / cancellation mails accepted by Gmail
    callLog,              \* rows written by log_call_record
    verified,             \* bookings that got past the verify step so far
    last,                 \* the handler invocation that finished last, with its result
    twilio,               \* request id -> request of the Twilio proxy functions
    webrtc,               \* state, refs, sockets and timers of useWebRTCClient
    mounted,              \* the Pipecat client the page is built on
    simple,               \* state, refs, sockets and media of useSimplePipecatClient
    pipecat,              \* state, refs and transport clients of usePipecatClient
    component             \* state, refs and sockets of the SimplePipecatClient component

\* The variables of the three Pipecat clients.
pipecatVars == <<mounted, simple, pipecat, component>>

\* The variables of the front end and of the Twilio proxy.
clientVars == <<twilio, webrtc, pipecatVars>>

\* The variables of the voice server.
serverVars == <<events, pc, req, session_call_records, patient_database,
                patient_sheet, active_sessions, saved_call_records,
                sentMail, callLog, verified, last>>

vars == <<serverVars, clientVars>>

\* The variables of the session manager and of the Patients sheet.
storeVars == <<patient_sheet, active_sessions, saved_call_records>>

\* ------------------------------------------------------------- time helpers

Abs(date, time) == date * MinutesPerDay + time

EvStart(e) == Abs(e.date, e.start)
EvEnd(e) == Abs(e.date, e.start + e.dur)

Weekday(date) == date % 7

AbsDiff(a, b) == IF a >= b THEN a - b ELSE b - a

\* str.lower() on the names of the callers.
Lower(name) ==
    CASE name \in {"Asha", "ASHA", "asha"} -> "asha"
      [] name \in {"Ravi", "RAVI", "ravi"} -> "ravi"
      [] OTHER -> name

\* ---------------------------------------------------------------- calendar

\* A listing that takes timeMin for a bound on the start of an event.
EventsListByStart(evs, timeMin, timeMax) ==
    {e \in BagToSet(evs) : EvStart(e) > timeMin /\ EvStart(e) < timeMax}

\* events().list(timeMin, timeMax, singleEvents=True): timeMin is an exclusive
\* lower bound on an event's end, timeMax an exclusive upper bound on its start.
EventsList(evs, timeMin, timeMax) ==
    {e \in BagToSet(evs) : EvEnd(e) > timeMin /\ EvStart(e) < timeMax}

\* _check_time_conflicts: the listed events that overlap [start, end] by a
\* positive duration.
check_time_conflicts(listed, start, end) ==
    {e \in listed :
        (IF EvEnd(e) < end THEN EvEnd(e) ELSE end)
          - (IF EvStart(e) > start THEN EvStart(e) ELSE start) > 0}

\* ------------------------------------------------------------ SlotAllocator

\* A grid of quarter hours.
GridTimeQuarter(k) == WorkStart + k * (SlotStep \div 2)

\* The grid inside working hours: slot k starts at GridTime(k), and the last
\* slot ends at WorkEnd.
GridTime(k) == WorkStart + k * SlotStep
LastGrid == (WorkEnd - DefaultDuration - WorkStart) \div SlotStep

SlotFree(evs, date, time) ==
    check_time_conflicts(
        EventsList(evs, Abs(date, time), Abs(date, time + DefaultDuration)),
        Abs(date, time), Abs(date, time + DefaultDuration)) = {}

\* The free grid slots of one day in ranked order, at most n of them: least
\* distance from the requested time of day first, the earlier one on a tie.
\* lo walks down from the last grid slot at or before the requested time, hi
\* walks up from the one after it.
RECURSIVE RankDay(_, _, _, _, _, _)
RankDay(evs, date, time, lo, hi, n) ==
    IF n = 0 \/ (lo < 0 /\ hi > LastGrid) THEN <<>>
    ELSE LET below == lo >= 0 /\ (hi > LastGrid \/ AbsDiff(GridTime(lo), time)
                                                   <= AbsDiff(GridTime(hi), time))
             t == IF below THEN GridTime(lo) ELSE GridTime(hi)
             nlo == IF below THEN lo - 1 ELSE lo
             nhi == IF below THEN hi ELSE hi + 1
         IN  IF SlotFree(evs, date, t)
             THEN <<[date |-> date, start |-> t]>>
                    \o RankDay(evs, date, time, nlo, nhi, n - 1)
             ELSE RankDay(evs, date, time, nlo, nhi, n)

\* Index of the last grid slot that starts at or before a time of day (-1 when
\* the time precedes the grid).
GridIndex(time) ==
    IF time < WorkStart THEN -1
    ELSE IF time >= GridTime(LastGrid) THEN LastGrid
    ELSE (time - WorkStart) \div SlotStep

\* Scan forward from the requested date, day by day, for up to WindowDays.
RECURSIVE Suggest(_, _, _, _, _)
Suggest(evs, date, time, offset, n) ==
    IF n = 0 \/ offset >= WindowDays THEN <<>>
    ELSE LET day == IF Weekday(date + offset) = Sunday THEN <<>>
                    ELSE RankDay(evs, date + offset, time,
                                 GridIndex(time), GridIndex(time) + 1, n)
         IN  day \o Suggest(evs, date, time, offset + 1, n - Len(day))

\* A scan that collects one slot more than the count.
SuggestOneMore(evs, date, time) ==
    Suggest(evs, date, time, 0, SuggestCount + 1)

\* _suggest_alternative_slots(start_datetime, conflicts)
suggest_alternative_slots(evs, date, time) ==
    Suggest(evs, date, time, 0, SuggestCount)

\* ------------------------------------------------------ check_availability

\* A check that works out the alternatives before it looks at the conflicts.
check_availability_eager(evs, date, time, duration) ==
    LET start == Abs(date, time)
        end == Abs(date, time + duration)
        conflicts == check_time_conflicts(EventsList(evs, start, end), start, end)
    IN  [available |-> conflicts = {}, conflicts |-> conflicts,
         alternatives |-> suggest_alternative_slots(evs, date, time),
         listed |-> TRUE]

\* CalendarService.check_availability: list the events between start and end,
\* keep the conflicting ones, answer available or the conflicts with
\* alternatives.  `listed` records that events().list was called.
check_availability(evs, date, time, duration) ==
    LET start == Abs(date, time)
        end == Abs(date, time + duration)
        conflicts == check_time_conflicts(EventsList(evs, start, end), start, end)
    IN  IF conflicts = {}
        THEN [available |-> TRUE, conflicts |-> {}, alternatives |-> <<>>,
              listed |-> TRUE]
        ELSE [available |-> FALSE, conflicts |-> conflicts,
              alternatives |-> suggest_alternative_slots(evs, date, time),
              listed |-> TRUE]

\* ------------------------------------------------------------ call records

\* CallRecord.__init__
NewCallRecord ==
    [customer_name |-> "", customer_email |-> "", customer_type |-> "",
     department_enquired |-> "", doctor_enquired |-> "",
     call_type |-> "inquiry", status |-> "in_progress"]

\* get_patient_by_phone: the rows of the sheet with the phone, oldest first.
get_patient_by_phone(sheet, phone) ==
    SelectSeq(sheet, LAMBDA row : row.phone = phone)

\* convert_to_dict
convert_to_dict(row) == [name |-> row.name, email |-> row.email]

\* patient_database[phone] = info
Put(db, phone, info) ==
    [p \in DOMAIN db \cup {phone} |-> IF p = phone THEN info ELSE db[p]]

\* A detection that asks the Patients sheet before session memory.
detect_customer_type_sheet_first(db, phone) ==
    LET rows == get_patient_by_phone(patient_sheet, phone)
    IN  IF rows # <<>>
        THEN [tag |-> "returning", record |-> <<convert_to_dict(rows[1])>>,
              db |-> Put(db, phone, convert_to_dict(rows[1])), lookup |-> TRUE]
        ELSE IF phone \in DOMAIN db
        THEN [tag |-> "existing", record |-> <<db[phone]>>, db |-> db,
              lookup |-> TRUE]
        ELSE [tag |-> "new", record |-> <<>>, db |-> db, lookup |-> TRUE]

\* A detection that does not keep the row it finds.
detect_customer_type_no_cache(db, phone) ==
    LET rows == get_patient_by_phone(patient_sheet, phone)
    IN  IF phone \in DOMAIN db
        THEN [tag |-> "existing", record |-> <<db[phone]>>, db |-> db,
              lookup |-> FALSE]
        ELSE IF rows # <<>>
        THEN [tag |-> "returning", record |-> <<convert_to_dict(rows[1])>>,
              db |-> db, lookup |-> TRUE]
        ELSE [tag |-> "new", record |-> <<>>, db |-> db, lookup |-> TRUE]

\* detect_customer_type: session memory first, then the Patients sheet (the
\* row found is cached in session memory), else a new customer.  `record` is
\* the patient_info returned (none for a new customer), `lookup` tells whether
\* the sheet was asked.
detect_customer_type(db, phone) ==
    LET rows == get_patient_by_phone(patient_sheet, phone)
    IN  IF phone \in DOMAIN db
        THEN [tag |-> "existing", record |-> <<db[phone]>>, db |-> db,
              lookup |-> FALSE]
        ELSE IF rows # <<>>
        THEN [tag |-> "returning", record |-> <<convert_to_dict(rows[1])>>,
              db |-> Put(db, phone, convert_to_dict(rows[1])), lookup |-> TRUE]
        ELSE [tag |-> "new", record |-> <<>>, db |-> db, lookup |-> TRUE]

\* An update that takes every function call for a booking.
update_call_record_any_function(rec, db, function_name, name, phone) ==
    [rec EXCEPT !.customer_name = name,
                !.customer_type = detect_customer_type(db, phone).tag,
                !.call_type = "appointment_booking"]

\* update_call_record_from_function, the record it leaves for a function call
\* of the session (patient_name and phone are always supplied by a booking).
update_call_record_from_function(rec, db, function_name, name, phone) ==
    IF function_name \in {"book_appointment", "send_appointment_email"}
    THEN [rec EXCEPT !.customer_name = name,
                     !.customer_type = detect_customer_type(db, phone).tag,
                     !.call_type = "appointment_booking"]
    ELSE rec

\* The rest of the same update: the email, and department and doctor if
\* provided (x or call_record.x keeps the old value for an empty argument).
update_enquiry(rec, function_name, email, department, doctor_name) ==
    IF function_name \in {"book_appointment", "send_appointment_email"}
    THEN [rec EXCEPT
            !.customer_email = IF email # "" THEN email ELSE @,
            !.department_enquired = IF department # "" THEN department ELSE @,
            !.doctor_enquired = IF doctor_name # "" THEN doctor_name ELSE @]
    ELSE rec

\* The session memory after the same call.
update_patient_database(db, function_name, phone) ==
    IF function_name \in {"book_appointment", "send_appointment_email"}
    THEN detect_customer_type(db, phone).db
    ELSE db

\* update_call_record_from_function for a session: nothing happens for a
\* session id that is not in session_call_records.
call_records_after(records, db, s, function_name, name, phone, email, doctor_name) ==
    IF s \notin DOMAIN records THEN records
    ELSE [records EXCEPT ![s] =
             update_enquiry(
                 update_call_record_from_function(@, db, function_name, name, phone),
                 function_name, email, NoDepartment, doctor_name)]

patient_database_after(records, db, s, function_name, phone) ==
    IF s \notin DOMAIN records THEN db
    ELSE update_patient_database(db, function_name, phone)

\* ------------------------------------------------------------------ state

NoReq == [date |-> 0, time |-> 0, doctor |-> "", phone |-> "", verify |-> "none"]

NoCall ==
    [op |-> "none", session |-> "", name |-> "", email |-> "", phone |-> "",
     date |-> 0,
     time |-> 0, dur |-> 0, doctor |-> "", verify |-> "none", success |-> FALSE, available |-> FALSE,
     conflicts |-> {}, alternatives |-> <<>>, listed |-> FALSE,
     email_sent |-> FALSE,
     calendar_added |-> FALSE, created |-> "none", steps |-> <<>>,
     taken |-> FALSE, found |-> FALSE, stored |-> FALSE,
     function |-> "", arguments |-> NoArguments]

\* No request has reached the proxy functions.
NoRequest ==
    [function |-> "", method |-> "", at |-> "none", forwarded |-> 0,
     failed |-> FALSE, upstream |-> "", answers |-> <<>>]

\* useWebRTCClient after its first render: the useState and useRef initial
\* values, no WebSocket, no peer connection, no timer, no startCall yet.
\* `ended` tells that endCall has run since the last startCall, `endSession`
\* is the end-session message sent last.
WebRTCInit ==
    [isCallActive |-> FALSE, connectionState |-> "disconnected", error |-> "",
     websocketRef |-> 0, sessionIdRef |-> 0, reconnectAttemptsRef |-> 0,
     reconnectTimeoutRef |-> [pending |-> FALSE, active |-> FALSE],
     localStreamRef |-> FALSE,
     peerConnectionRef |-> [open |-> FALSE, active |-> FALSE],
     sockets |-> <<>>, created |-> 0, calls |-> <<>>,
     ended |-> FALSE, afterEnd |-> FALSE,
     endSession |-> [sent |-> FALSE, sessionId |-> 0, assigned |-> 0]]

\* The three clients of the Pipecat server: two hooks and a component.
PipecatClients ==
    {"useSimplePipecatClient", "usePipecatClient", "SimplePipecatClient"}

\* useSimplePipecatClient before the first call.  sockets maps the WebSocket
\* of each call that is not closed yet to its state; pending counts, per
\* call, the startAudioCapture calls that wait for getUserMedia, captures the
\* microphone captures they got; audioContextRef tells whether the ref holds
\* no context, an open one or a closed one; streams and contexts tell that a
\* media stream is not stopped, an audio context not closed, and no ref
\* holds it any more; ending tells that an endCall waits for its audio
\* context to close, ended that endCall ran and startCall did not run since.
\* The error message, which nothing reads, is left out.
SimpleInit ==
    [isCallActive |-> FALSE, connectionState |-> "disconnected",
     websocketRef |-> 0, localStreamRef |-> FALSE, audioContextRef |-> "null",
     sockets |-> <<>>, calls |-> 0,
     pending |-> [c \in 1..MaxCalls |-> 0],
     captures |-> [c \in 1..MaxCalls |-> 0],
     streams |-> FALSE, contexts |-> FALSE, ending |-> FALSE, ended |-> FALSE]

\* usePipecatClient before the first call.  clients maps each transport
\* client that is not disconnected yet to its state, calls each startCall
\* to the await it stands at.
PipecatInit ==
    [isCallActive |-> FALSE, connectionState |-> "disconnected", error |-> "",
     botReady |-> FALSE, localStreamRef |-> FALSE, clientRef |-> 0,
     clients |-> <<>>, calls |-> <<>>, ended |-> FALSE]

\* The SimplePipecatClient component before the first call.
ComponentInit ==
    [isCallActive |-> FALSE, connectionState |-> "disconnected", error |-> "",
     websocketRef |-> 0, audioContextRef |-> FALSE, mediaStreamRef |-> FALSE,
     sockets |-> <<>>, calls |-> <<>>, ended |-> FALSE]

\* The front end and the proxy before anything happened.
ClientInit ==
    /\ twilio = [id \in RequestIds |-> NoRequest]
    /\ webrtc = WebRTCInit
    /\ mounted = "useSimplePipecatClient"
    /\ simple = SimpleInit
    /\ pipecat = PipecatInit
    /\ component = ComponentInit

\* The voice server after start-up, one session open per caller.
ServerInit ==
    /\ events = EmptyBag
    /\ pc = [s \in Sessions |-> "idle"]
    /\ req = [s \in Sessions |-> NoReq]
    /\ session_call_records = [s \in Sessions |-> NewCallRecord]
    /\ patient_database = [p \in {} |-> convert_to_dict(InitialSheet[1])]
    /\ patient_sheet = InitialSheet
    /\ active_sessions = Sessions
    /\ saved_call_records = <<>>
    /\ sentMail = 0
    /\ callLog = 0
    /\ verified = 0
    /\ last = NoCall

Init ==
    /\ ClientInit
    /\ ServerInit

\* The event create_calendar_event adds for a booking.
BookedEvent(s, date, time, doctor) ==
    [date |-> date, start |-> time, dur |-> DefaultDuration, doctor |-> doctor,
     patient |-> PatientName(s), email |-> PatientEmail(s)]

\* Events that occupy exactly the doctor/date/time of a request.
SameSlot(evs, date, time, doctor) ==
    {e \in BagToSet(evs) : e.date = date /\ e.start = time /\ e.doctor = doctor}

\* ------------------------------------------------------------------ check

\* A caller asks CalendarService.check_availability.  The calendar API either
\* answers or raises; nothing catches the exception.
CheckAvailability(date, time, dur) ==
    /\ UNCHANGED clientVars
    /\ \E up \in BOOLEAN, r \in {check_availability(events, date, time, dur)} :
         last' = IF up
            THEN [NoCall EXCEPT !.op = "check", !.date = date,
                    !.time = time, !.dur = dur, !.success = TRUE,
                    !.verify = IF r.available THEN "available" ELSE "unavailable",
                    !.available = r.available, !.conflicts = r.conflicts,
                    !.alternatives = r.alternatives,
                    !.listed = r.listed, !.steps = <<"check_availability">>]
            ELSE [NoCall EXCEPT !.op = "check", !.date = date,
                    !.time = time, !.dur = dur, !.verify = "raise",
                    !.listed = TRUE, !.steps = <<"check_availability">>]
    /\ UNCHANGED <<events, pc, req, session_call_records, patient_database,
                   sentMail, callLog, verified>>
    /\ UNCHANGED storeVars

\* ------------------------------------------------------------------- book

\* availability_check.get('available', True)
AvailableOrDefault(answer) ==
    IF answer.has_available THEN answer.available ELSE TRUE

\* What the booking handler gets back from check_availability: the answer of
\* lines 363-376, or, when the calendar API fails, either the exception or the
\* error dictionary of the repository's services ({'success': False, 'error'}),
\* which has no 'available' key.
VerifyAnswers(evs, date, time) ==
    { [kind |-> IF r.available THEN "available" ELSE "unavailable",
       has_available |-> TRUE, available |-> r.available,
       alternatives |-> r.alternatives] :
         r \in {check_availability(evs, date, time, DefaultDuration)} }
    \cup { [kind |-> "noanswer", has_available |-> FALSE, available |-> FALSE,
            alternatives |-> <<>>] }

\* Steps 1-2 of handle_book_appointment, up to the early return.
BookVerify(s, date, time, doctor, phone) ==
    /\ UNCHANGED clientVars
    /\ pc[s] = "idle"
    /\ UNCHANGED storeVars
    /\ verified < MaxBookings
    /\ \/ \* check_availability raises: the exception leaves the handler and the
          \* session-aware wrapper before update_call_record.
          /\ last' = [NoCall EXCEPT !.op = "book", !.session = s, !.date = date,
                        !.time = time, !.dur = DefaultDuration, !.doctor = doctor,
                        !.phone = phone, !.verify = "raise", !.listed = TRUE,
                        !.steps = <<"check_availability">>]
          /\ UNCHANGED <<events, pc, req, session_call_records, patient_database,
                         sentMail, callLog, verified>>
       \/ \E a \in VerifyAnswers(events, date, time) :
            IF AvailableOrDefault(a)
            THEN /\ pc' = [pc EXCEPT ![s] = "commit"]
                 /\ req' = [req EXCEPT ![s] = [date |-> date, time |-> time,
                                               doctor |-> doctor, phone |-> phone,
                                               verify |-> a.kind]]
                 /\ verified' = verified + 1
                 /\ UNCHANGED <<events, session_call_records, patient_database,
                                sentMail, callLog, last>>
            ELSE /\ last' = [NoCall EXCEPT !.op = "book", !.session = s,
                               !.date = date, !.time = time,
                               !.dur = DefaultDuration, !.doctor = doctor,
                               !.phone = phone, !.verify = a.kind, !.listed = TRUE,
                               !.alternatives = a.alternatives,
                               !.taken = SameSlot(events, date, time, doctor) # {},
                               !.steps = <<"check_availability", "update_call_record">>]
                 /\ session_call_records' =
                        call_records_after(session_call_records, patient_database,
                            s, "book_appointment", PatientName(s), phone,
                            PatientEmail(s), doctor)
                 /\ patient_database' =
                        patient_database_after(session_call_records,
                            patient_database, s, "book_appointment", phone)
                 /\ UNCHANGED <<events, pc, req, sentMail, callLog, verified>>

\* Step 3 of handle_book_appointment, in the order the handler runs it.
CommitSteps ==
    <<"send_confirmation_email", "create_calendar_event", "log_call_record">>

\* A booking that reports the mail's outcome as its own.
book_result_follows_mail(email_ok, calendar_ok) ==
    [success |-> email_ok, email_sent |-> email_ok, calendar_added |-> calendar_ok]

\* The result of step 4.
book_result(email_ok, calendar_ok) ==
    [success |-> TRUE, email_sent |-> email_ok, calendar_added |-> calendar_ok]

\* The calendar after create_calendar_event: the event is added when the
\* insert succeeds.
create_calendar_event(evs, ev, created) ==
    IF created THEN evs (+) SetToBag({ev}) ELSE evs

\* Steps 3-4 of handle_book_appointment and the wrapper's update_call_record.
\* Gmail accepts the mail or not; the calendar insert succeeds, fails, or is
\* refused for a conflict when the slot is occupied by then.
BookCommit(s) ==
    /\ UNCHANGED clientVars
    /\ pc[s] = "commit"
    /\ \E email_ok \in BOOLEAN, created \in {"created", "failed", "conflict"} :
         LET r == req[s]
             ev == BookedEvent(s, r.date, r.time, r.doctor)
             occupied == ~SlotFree(events, r.date, r.time)
             res == book_result(email_ok, created = "created")
         IN  /\ created = "conflict" => occupied
             /\ events' = create_calendar_event(events, ev, created = "created")
             /\ sentMail' = sentMail + (IF email_ok THEN 1 ELSE 0)
             /\ callLog' = callLog + 1
             /\ last' = [NoCall EXCEPT !.op = "book", !.session = s, !.date = r.date,
                           !.time = r.time, !.dur = DefaultDuration,
                           !.doctor = r.doctor, !.phone = r.phone,
                           !.verify = r.verify,
                           !.listed = TRUE,
                           !.success = res.success,
                           !.email_sent = res.email_sent,
                           !.calendar_added = res.calendar_added,
                           !.created = created,
                           !.taken = SameSlot(events, r.date, r.time, r.doctor) # {},
                           !.steps = <<"check_availability">> \o CommitSteps
                                       \o <<"update_call_record">>]
    /\ session_call_records' =
           call_records_after(session_call_records, patient_database, s,
               "book_appointment", PatientName(s), req[s].phone,
               PatientEmail(s), req[s].doctor)
    /\ patient_database' =
           patient_database_after(session_call_records, patient_database, s,
               "book_appointment", req[s].phone)
    /\ UNCHANGED storeVars
    /\ pc' = [pc EXCEPT ![s] = "idle"]
    /\ req' = [req EXCEPT ![s] = NoReq]
    /\ UNCHANGED verified

\* ----------------------------------------------------------------- cancel

\* A matching that asks for the very time and the very name of the booking.
CancelMatchesExactly(evs, date, rq) ==
    {e \in BagToSet(evs) :
        /\ e.date = date
        /\ rq.doctor = AnyDoctor \/ e.doctor = rq.doctor
        /\ e.start = rq.time
        /\ e.patient = rq.name
        /\ rq.email = NoEmail \/ e.email = rq.email}

\* Events a cancellation request matches: on the date, of the doctor when one
\* is named, starting within the tolerance of the requested time, booked under
\* the caller's name whatever its case, and under the email when one is given.
CancelMatches(evs, date, rq) ==
    {e \in BagToSet(evs) :
        /\ e.date = date
        /\ rq.doctor = AnyDoctor \/ e.doctor = rq.doctor
        /\ AbsDiff(e.start, rq.time) <= CancelTolerance
        /\ Lower(e.patient) = Lower(rq.name)
        /\ rq.email = NoEmail \/ e.email = rq.email}

\* cancel_appointment and the wrapper's update_call_record: remove the matching
\* event, send the cancellation mail, mark the call record; nothing happens
\* without a match.
Cancel(s, date, rq) ==
    /\ UNCHANGED clientVars
    /\ pc[s] = "idle"
    /\ UNCHANGED storeVars
    /\ LET m == CancelMatches(events, date, rq)
           recs == call_records_after(session_call_records, patient_database,
                       s, "cancel_appointment", rq.name, PatientPhone(s),
                       rq.email, rq.doctor)
       IN  IF m = {}
           THEN /\ last' = [NoCall EXCEPT !.op = "cancel", !.session = s,
                              !.name = rq.name, !.email = rq.email,
                              !.date = date, !.time = rq.time,
                              !.doctor = rq.doctor,
                              !.steps = <<"list_events", "update_call_record">>]
                /\ session_call_records' = recs
                /\ UNCHANGED <<events, sentMail>>
           ELSE \E e \in m, mail_ok \in BOOLEAN :
                /\ events' = events (-) SetToBag({e})
                /\ sentMail' = sentMail + (IF mail_ok THEN 1 ELSE 0)
                /\ session_call_records' =
                       IF s \notin DOMAIN recs THEN recs
                       ELSE [recs EXCEPT ![s].call_type = "cancellation",
                                         ![s].status = "resolved"]
                /\ last' = [NoCall EXCEPT !.op = "cancel", !.session = s,
                              !.name = rq.name, !.email = rq.email,
                              !.date = date, !.time = rq.time,
                              !.doctor = rq.doctor,
                              !.success = TRUE, !.found = TRUE,
                              !.email_sent = mail_ok,
                              !.steps = <<"list_events", "delete_event",
                                          "send_cancellation",
                                          "update_call_record">>]
    /\ patient_database' =
           patient_database_after(session_call_records, patient_database, s,
               "cancel_appointment", PatientPhone(s))
    /\ UNCHANGED <<pc, req, callLog, verified>>

\* ------------------------------------------------------------ specification

Next ==
    \/ \E slot \in CheckSlots : \E dur \in DurationsAt(slot) :
         CheckAvailability(slot[1], slot[2], dur)
    \/ \E s \in Sessions, d \in BookDates, t \in BookTimes, doc \in Doctors :
         BookVerify(s, d, t, doc, PatientPhone(s))
    \/ \E s \in Sessions : BookCommit(s)
    \/ \E s \in Sessions, d \in BookDates :
         \E rq \in CancelRequests(s) : Cancel(s, d, rq)

Spec == Init /\ [][Next]_vars

\* ---------------------------------------------------------- patient store

\* A save that lets the exception of the Sheets API through.
save_patient_data_raising(sheet, row, api_ok) ==
    IF api_ok THEN [success |-> TRUE, raised |-> FALSE, sheet |-> Append(sheet, row)]
    ELSE [success |-> FALSE, raised |-> TRUE, sheet |-> sheet]

\* GoogleSheetsService.save_patient_data: append the row to Patients!A:K; an
\* exception of the API is caught and answered with success False.
save_patient_data(sheet, row, api_ok) ==
    IF api_ok THEN [success |-> TRUE, raised |-> FALSE, sheet |-> Append(sheet, row)]
    ELSE [success |-> FALSE, raised |-> FALSE, sheet |-> sheet]

\* The patient_info kept for a phone once an email is supplied for it: the
\* cached one with the new email, or a new one under the caller's name.
merged_patient_info(db, phone, name, email) ==
    IF phone \in DOMAIN db THEN [db[phone] EXCEPT !.email = email]
    ELSE [name |-> name, email |-> email]

\* Storing patient info: in session memory and on the Patients sheet.
StorePatient(s, phone, email) ==
    /\ UNCHANGED clientVars
    /\ s \in active_sessions
    /\ pc[s] = "idle"
    /\ Len(patient_sheet) < MaxRows
    /\ \E api_ok \in BOOLEAN :
         LET info == merged_patient_info(patient_database, phone,
                                         PatientName(s), email)
             res == save_patient_data(patient_sheet,
                        [phone |-> phone, name |-> info.name, email |-> info.email],
                        api_ok)
         IN  /\ patient_database' = Put(patient_database, phone, info)
             /\ patient_sheet' = res.sheet
             /\ last' = [NoCall EXCEPT !.op = "store", !.session = s,
                           !.phone = phone, !.email = email,
                           !.success = ~res.raised, !.stored = res.success,
                           !.steps = <<"save_patient_data">>]
    /\ UNCHANGED <<events, pc, req, session_call_records, active_sessions,
                   saved_call_records, sentMail, callLog, verified>>

\* ------------------------------------------- bookings under shared phones

\* The bookings of callers who may give a phone number another caller gives
\* too; every booking ends in update_call_record and detect_customer_type.
NextDirectory ==
    \/ \E s \in Sessions, d \in BookDates, t \in BookTimes, doc \in Doctors :
         \E phone \in CallerPhones(s) : BookVerify(s, d, t, doc, phone)
    \/ \E s \in Sessions : BookCommit(s)

SpecDirectory == Init /\ [][NextDirectory]_vars

\* -------------------------------------------- bookings and the patient store

\* Callers who book the first slot of the day and whose patient info is
\* stored under their own phone.
NextStore ==
    \/ \E s \in Sessions, d \in BookDates, doc \in Doctors :
         BookVerify(s, d, WorkStart, doc, PatientPhone(s))
    \/ \E s \in Sessions : BookCommit(s)
    \/ \E s \in Sessions : StorePatient(s, PatientPhone(s), PatientEmail(s))

SpecStore == Init /\ [][NextStore]_vars

\* ------------------------------------------------------ the session's record

\* arguments.get(key, default)
get(arguments, key, default) ==
    IF key \in DOMAIN arguments THEN arguments[key] ELSE default

\* CallRecord.update_from_function_call
update_from_function_call(rec, function_name, arguments) ==
    IF function_name \in {"book_appointment", "check_appointment_availability"}
    THEN [rec EXCEPT
            !.customer_name = get(arguments, "patient_name", @),
            !.customer_email = get(arguments, "email", @),
            !.department_enquired = get(arguments, "department", ""),
            !.doctor_enquired = get(arguments, "doctor_name", ""),
            !.call_type = "appointment_booking"]
    ELSE rec

\* A function call of the session updates its CallRecord.
UpdateFromFunctionCall(s, function_name, arguments) ==
    /\ UNCHANGED clientVars
    /\ s \in DOMAIN session_call_records
    /\ session_call_records' =
           [session_call_records EXCEPT ![s] =
               update_from_function_call(@, function_name, arguments)]
    /\ last' = [NoCall EXCEPT !.op = "update", !.session = s, !.success = TRUE,
                  !.function = function_name, !.arguments = arguments,
                  !.steps = <<"update_from_function_call">>]
    /\ UNCHANGED <<events, pc, req, patient_database, patient_sheet,
                   active_sessions, saved_call_records, sentMail, callLog,
                   verified>>

\* _save_call_record: the record is written as it is.
save_call_record(saved, s, rec) ==
    Append(saved, [session_id |-> s, record |-> rec])

\* The rows of a session among the saved call records.
SavedRows(saved, s) == SelectSeq(saved, LAMBDA row : row.session_id = s)

\* session_call_records without the entry of s (del session_call_records[s])
Del(records, s) == [x \in DOMAIN records \ {s} |-> records[x]]

\* A cleanup that leaves the record in session_call_records.
cleanup_session_keeping(records, active, saved, s) ==
    IF s \in DOMAIN records
    THEN [records |-> records, active |-> active \ {s},
          saved |-> save_call_record(saved, s, records[s]), persisted |-> TRUE]
    ELSE [records |-> records, active |-> active \ {s}, saved |-> saved,
          persisted |-> FALSE]

\* SessionManager.cleanup_session: save the record and forget it if the
\* session has one, then forget the session; nothing is raised either way.
cleanup_session(records, active, saved, s) ==
    IF s \in DOMAIN records
    THEN [records |-> Del(records, s), active |-> active \ {s},
          saved |-> save_call_record(saved, s, records[s]), persisted |-> TRUE]
    ELSE [records |-> records, active |-> active \ {s}, saved |-> saved,
          persisted |-> FALSE]

\* The front end cleans a session up: when the caller hangs up, also in the
\* middle of a booking, when the session times out, or once more after that.
CleanupSession(s) ==
    /\ UNCHANGED clientVars
    /\ \E r \in {cleanup_session(session_call_records, active_sessions,
                                  saved_call_records, s)} :
         /\ session_call_records' = r.records
         /\ active_sessions' = r.active
         /\ saved_call_records' = r.saved
         /\ last' = [NoCall EXCEPT !.op = "cleanup", !.session = s,
                       !.success = TRUE, !.stored = r.persisted,
                       !.steps = IF r.persisted
                                 THEN <<"save_call_record", "del_call_record">>
                                 ELSE <<>>]
    /\ UNCHANGED <<events, pc, req, patient_database, patient_sheet, sentMail,
                   callLog, verified>>

\* Sessions that book the first slot of the day, cancel it and end.
NextSession ==
    \/ \E s \in Sessions, doc \in Doctors :
         BookVerify(s, Today, WorkStart, doc, PatientPhone(s))
    \/ \E s \in Sessions : BookCommit(s)
    \/ \E s \in Sessions :
         Cancel(s, Today, [name |-> PatientName(s), time |-> WorkStart,
                           doctor |-> AnyDoctor, email |-> NoEmail])
    \/ \E s \in Sessions : CleanupSession(s)

SpecSession == Init /\ [][NextSession]_vars

\* Sessions whose function calls update their call record, with and without
\* a booking.
NextRecord ==
    \/ \E s \in Sessions, function_name \in UpdateFunctions :
         \E arguments \in UpdateArguments(s) :
            UpdateFromFunctionCall(s, function_name, arguments)
    \/ \E doc \in Doctors :
         BookVerify("s1", Today, WorkStart, doc, PatientPhone("s1"))
    \/ BookCommit("s1")

SpecRecord == Init /\ [][NextRecord]_vars

\* The same sessions with a front end that does clean up every session that
\* is still active (the caller hangs up, or session_timeout passes).
SpecSessionFair ==
    SpecSession /\ \A s \in Sessions : WF_vars(CleanupSession(s))

\* --------------------------------------------------------- session creation

\* The session ids uuid4 may give out, in the order it gives them out.
SessionIds == 1..(max_sessions + ExtraSessions)

\* An id is new as long as no session has it or had it.
UnusedIds(active, saved) ==
    {id \in SessionIds : id \notin active /\ SavedRows(saved, id) = <<>>}

\* A creation that stores the session data alone.
create_session_no_record(records, active, id) ==
    [records |-> records, active |-> active \cup {id}]

\* SessionManager.create_session: session data and a new CallRecord are
\* stored under the new id.
create_session(records, active, id) ==
    [records |-> Put(records, id, NewCallRecord), active |-> active \cup {id}]

CreateSession(id) ==
    /\ UNCHANGED clientVars
    /\ id \in UnusedIds(active_sessions, saved_call_records)
    /\ \E r \in {create_session(session_call_records, active_sessions, id)} :
         /\ session_call_records' = r.records
         /\ active_sessions' = r.active
    /\ last' = [NoCall EXCEPT !.op = "create", !.session = id, !.success = TRUE,
                  !.steps = <<"create_session">>]
    /\ UNCHANGED <<events, pc, req, patient_database, patient_sheet,
                   saved_call_records, sentMail, callLog, verified>>

\* A server that has no session yet.
InitCapacity ==
    /\ ClientInit
    /\ events = EmptyBag
    /\ pc = [s \in Sessions |-> "idle"]
    /\ req = [s \in Sessions |-> NoReq]
    /\ session_call_records = [s \in {} |-> NewCallRecord]
    /\ patient_database = [p \in {} |-> convert_to_dict(InitialSheet[1])]
    /\ patient_sheet = InitialSheet
    /\ active_sessions = {}
    /\ saved_call_records = <<>>
    /\ sentMail = 0
    /\ callLog = 0
    /\ verified = 0
    /\ last = NoCall

\* The session whose activity is the oldest: the one session_timeout ends first.
Oldest(active) == CHOOSE id \in active : \A other \in active : id <= other

\* Callers connect one after the other, and the oldest session ends.
NextCapacity ==
    \/ \E id \in SessionIds :
         /\ \A other \in UnusedIds(active_sessions, saved_call_records) : id <= other
         /\ CreateSession(id)
    \/ /\ active_sessions # {}
       /\ CleanupSession(Oldest(active_sessions))

SpecCapacity == InitCapacity /\ [][NextCapacity]_vars

\* ------------------------------------------------------- useWebRTCClient

\* The closures of a render see the isCallActive of that render for good:
\* `active` in a socket, a peer connection, a timer or a call is the value its
\* callbacks were created with.

\* A reconnect that has no limit of attempts.
handleReconnect_unlimited(w, active) ==
    [w EXCEPT !.reconnectAttemptsRef = @ + 1,
              !.reconnectTimeoutRef = [pending |-> TRUE, active |-> active]]

\* handleReconnect: give up at maxReconnectAttempts, else count the attempt
\* and replace the pending timer by a new one.
handleReconnect(w, active) ==
    IF w.reconnectAttemptsRef >= maxReconnectAttempts
    THEN [w EXCEPT !.error = "Failed to reconnect after multiple attempts",
                   !.isCallActive = FALSE]
    ELSE [w EXCEPT !.reconnectAttemptsRef = @ + 1,
                   !.reconnectTimeoutRef = [pending |-> TRUE, active |-> active]]

\* The live sockets: a socket leaves `sockets` with its close event.
Live(w) == DOMAIN w.sockets

\* websocketRef.current?.readyState === WebSocket.OPEN
RefOpen(w) ==
    /\ w.websocketRef \in Live(w)
    /\ w.sockets[w.websocketRef].readyState = "OPEN"

\* setupWebSocket: a new WebSocket whose callbacks see `active`; `afterEnd`
\* tells that one was made after endCall and before the next startCall.
setupWebSocket(w, active) ==
    [w EXCEPT !.created = @ + 1,
              !.websocketRef = w.created + 1,
              !.afterEnd = @ \/ w.ended,
              !.sockets = (w.created + 1 :>
                             [readyState |-> "CONNECTING", active |-> active,
                              session |-> 0, started |-> FALSE]) @@ @]

\* startCall up to its first await.
WebRTCStartCall ==
    /\ Len(webrtc.calls) < MaxCalls
    /\ webrtc' = [webrtc EXCEPT
          !.error = "", !.isCallActive = TRUE, !.connectionState = "connecting",
          !.ended = FALSE, !.afterEnd = FALSE,
          !.calls = Append(@, [phase |-> "media", active |-> webrtc.isCallActive,
                               socket |-> 0, ended |-> FALSE,
                               foreign |-> FALSE])]
    /\ UNCHANGED <<serverVars, twilio, pipecatVars>>

\* startCall after getUserMedia: the stream, the peer connection, the
\* WebSocket, the offer and the first checkConnection; or the catch block.
WebRTCStartMedia(c, ok) ==
    /\ c \in DOMAIN webrtc.calls
    /\ webrtc.calls[c].phase = "media"
    /\ webrtc.created < MaxSockets
    /\ webrtc' =
          IF ok
          THEN [setupWebSocket(webrtc, webrtc.calls[c].active) EXCEPT
                  !.calls[c].socket = webrtc.created + 1,
                  !.localStreamRef = TRUE,
                  !.peerConnectionRef = [open |-> TRUE,
                                         active |-> webrtc.calls[c].active],
                  !.calls[c].phase = "polling"]
          ELSE [webrtc EXCEPT !.error = "Failed to start call",
                              !.isCallActive = FALSE,
                              !.connectionState = "disconnected",
                              !.calls[c].phase = "done",
                              !.calls[c].active = FALSE]
    /\ UNCHANGED <<serverVars, twilio, pipecatVars>>

\* checkConnection of a startCall: send start-session on the socket of
\* websocketRef if that is open, else come back in 100 ms.  `foreign` tells
\* that the call had ended and the socket is not the socket the call made.
WebRTCCheckConnection(c) ==
    /\ c \in DOMAIN webrtc.calls
    /\ webrtc.calls[c].phase = "polling"
    /\ RefOpen(webrtc)
    /\ webrtc' = [webrtc EXCEPT
          !.sockets[webrtc.websocketRef].started = TRUE,
          !.calls[c].foreign =
              /\ webrtc.calls[c].ended
              /\ webrtc.websocketRef # webrtc.calls[c].socket,
          !.calls[c].phase = "done",
          !.calls[c].socket = 0,
          !.calls[c].active = FALSE,
          !.calls[c].ended = FALSE]
    /\ UNCHANGED <<serverVars, twilio, pipecatVars>>

\* ws.onopen
WebRTCSocketOpen(id) ==
    /\ id \in Live(webrtc)
    /\ webrtc.sockets[id].readyState = "CONNECTING"
    /\ webrtc' = [webrtc EXCEPT !.sockets[id].readyState = "OPEN",
                                !.connectionState = "connected",
                                !.error = "",
                                !.reconnectAttemptsRef = 0]
    /\ UNCHANGED <<serverVars, twilio, pipecatVars>>

\* ws.onmessage, session-created: the server answers a start-session with the
\* id of the session, and startAudioStreaming starts.
WebRTCSessionCreated(id) ==
    /\ id \in Live(webrtc)
    /\ webrtc.sockets[id].readyState = "OPEN"
    /\ webrtc.sockets[id].started
    /\ webrtc.sockets[id].session = 0
    /\ webrtc' = [webrtc EXCEPT !.sockets[id].session = id,
                                !.sessionIdRef = id,
                                !.connectionState = "connected"]
    /\ UNCHANGED <<serverVars, twilio, pipecatVars>>

\* The socket without the one that closed.
Closed(w, id) ==
    [w EXCEPT !.sockets = [x \in DOMAIN w.sockets \ {id} |-> w.sockets[x]]]

\* ws.onclose: the connection failed, the server or the network closed it, or
\* the close of endCall completed.
WebRTCSocketClose(id) ==
    /\ id \in Live(webrtc)
    /\ webrtc' =
          IF /\ webrtc.sockets[id].active
             /\ webrtc.reconnectAttemptsRef < maxReconnectAttempts
          THEN handleReconnect(
                   [Closed(webrtc, id) EXCEPT
                       !.connectionState = "disconnected",
                       !.error = "Connection lost. Attempting to reconnect..."],
                   webrtc.sockets[id].active)
          ELSE [Closed(webrtc, id) EXCEPT !.connectionState = "disconnected"]
    /\ UNCHANGED <<serverVars, twilio, pipecatVars>>

\* The callback of the reconnect timer.
WebRTCReconnectTimer ==
    /\ webrtc.reconnectTimeoutRef.pending
    /\ webrtc.created < MaxSockets
    /\ webrtc' =
          IF webrtc.reconnectTimeoutRef.active
          THEN [setupWebSocket(webrtc, webrtc.reconnectTimeoutRef.active)
                  EXCEPT !.reconnectTimeoutRef.pending = FALSE]
          ELSE [webrtc EXCEPT !.reconnectTimeoutRef.pending = FALSE]
    /\ UNCHANGED <<serverVars, twilio, pipecatVars>>

\* peerConnection.onconnectionstatechange
WebRTCPeerState(state) ==
    /\ webrtc.peerConnectionRef.open
    /\ webrtc' =
          IF state = "connected"
          THEN [webrtc EXCEPT !.connectionState = state,
                              !.error = "", !.reconnectAttemptsRef = 0]
          ELSE IF webrtc.peerConnectionRef.active
          THEN handleReconnect(
                   [webrtc EXCEPT
                       !.connectionState = state,
                       !.error = "Connection lost. Attempting to reconnect..."],
                   webrtc.peerConnectionRef.active)
          ELSE [webrtc EXCEPT !.connectionState = state]
    /\ UNCHANGED <<serverVars, twilio, pipecatVars>>

\* endCall: by the button, by a session-ended message or at unmount.
WebRTCEndCall ==
    /\ webrtc' = [webrtc EXCEPT
          !.isCallActive = FALSE, !.connectionState = "disconnected",
          !.sessionIdRef = 0,
          !.reconnectTimeoutRef.pending = FALSE,
          !.localStreamRef = FALSE,
          !.peerConnectionRef.open = FALSE,
          !.endSession =
              IF RefOpen(webrtc)
              THEN [sent |-> TRUE, sessionId |-> 0,
                    assigned |-> webrtc.sockets[webrtc.websocketRef].session]
              ELSE @,
          !.sockets =
              IF RefOpen(webrtc)
              THEN [@ EXCEPT ![webrtc.websocketRef].readyState = "CLOSING"]
              ELSE @,
          !.websocketRef = 0,
          !.calls = [c \in DOMAIN @ |->
                       [@[c] EXCEPT !.ended = @ \/ webrtc.calls[c].phase # "done"]],
          !.ended = TRUE]
    /\ UNCHANGED <<serverVars, twilio, pipecatVars>>

PeerStates == {"connected", "disconnected", "failed"}

NextWebRTC ==
    \/ WebRTCStartCall
    \/ \E c \in 1..MaxCalls, ok \in BOOLEAN : WebRTCStartMedia(c, ok)
    \/ \E c \in 1..MaxCalls : WebRTCCheckConnection(c)
    \/ \E id \in 1..MaxSockets : WebRTCSocketOpen(id)
    \/ \E id \in 1..MaxSockets : WebRTCSessionCreated(id)
    \/ \E id \in 1..MaxSockets : WebRTCSocketClose(id)
    \/ WebRTCReconnectTimer
    \/ \E state \in PeerStates : WebRTCPeerState(state)
    \/ WebRTCEndCall

SpecWebRTC == Init /\ [][NextWebRTC]_vars

\* The handlers that read or write the reconnect counter, the reconnect
\* timer or what these depend on: all but the start-session exchange.
NextReconnect ==
    \/ WebRTCStartCall
    \/ \E c \in 1..MaxCalls, ok \in BOOLEAN : WebRTCStartMedia(c, ok)
    \/ \E id \in 1..MaxSockets : WebRTCSocketOpen(id)
    \/ \E id \in 1..MaxSockets : WebRTCSocketClose(id)
    \/ WebRTCReconnectTimer
    \/ \E state \in PeerStates : WebRTCPeerState(state)
    \/ WebRTCEndCall

SpecReconnect == Init /\ [][NextReconnect]_vars

\* ------------------------------------------------------- the Twilio proxy

\* cors({origin: true}): the middleware answers a preflight request itself
\* and hands every other request to the handler.
cors(method) == IF method = "OPTIONS" THEN "answered" ELSE "next"

\* A handler that forwards whatever it is handed.
method_allowed_any(method) == TRUE

\* if (req.method !== 'POST') return res.status(405)...
method_allowed(method) == method = "POST"

\* What res sends: status, Content-Type and body.
Answer(status, type, body) == [status |-> status, type |-> type, body |-> body]

\* The answer of the catch block of a proxy function.
proxy_error(function) ==
    IF function = "twilioVoice"
    THEN Answer(500, "text/html", "Internal Server Error")
    ELSE Answer(500, "application/json", "error")

\* response.json() succeeds on a JSON body only.
IsJson(body) == body = "{}"

\* A request reaches a proxy function: cors, the method test and, for a POST,
\* the start of the fetch to the local server.
TwilioRequest(id, function, method) ==
    /\ UNCHANGED <<webrtc, pipecatVars>>
    /\ twilio[id].at = "none"
    /\ \A other \in RequestIds : other < id => twilio[other].at # "none"
    /\ twilio' = [twilio EXCEPT ![id] =
          IF cors(method) = "answered"
          THEN [@ EXCEPT !.function = function, !.method = method, !.at = "done",
                         !.answers = Append(@, Answer(204, "", ""))]
          ELSE IF ~method_allowed(method)
          THEN [@ EXCEPT !.function = function, !.method = method, !.at = "done",
                         !.answers = Append(@, Answer(405, "text/html",
                                                      "Method Not Allowed"))]
          ELSE [@ EXCEPT !.function = function, !.method = method,
                         !.at = "fetch", !.forwarded = @ + 1]]
    /\ UNCHANGED serverVars

\* await fetch(...) returns the response of the local server or throws.
TwilioFetch(id, ok, body) ==
    /\ UNCHANGED <<webrtc, pipecatVars>>
    /\ twilio[id].at = "fetch"
    /\ twilio' = [twilio EXCEPT ![id] =
          IF ok
          THEN [@ EXCEPT !.at = "body", !.upstream = body]
          ELSE [@ EXCEPT !.at = "done", !.failed = TRUE,
                         !.answers = Append(@, proxy_error(twilio[id].function))]]
    /\ UNCHANGED serverVars

\* await response.text() / response.json() and the answer to Twilio.
TwilioBody(id, read_ok) ==
    /\ UNCHANGED <<webrtc, pipecatVars>>
    /\ twilio[id].at = "body"
    /\ twilio' = [twilio EXCEPT ![id] =
          IF twilio[id].function = "twilioVoice"
          THEN IF read_ok
               THEN [@ EXCEPT !.at = "done",
                       !.answers = Append(@, Answer(200, "application/xml",
                                                    twilio[id].upstream))]
               ELSE [@ EXCEPT !.at = "done", !.failed = TRUE,
                       !.answers = Append(@, proxy_error(twilio[id].function))]
          ELSE IF read_ok /\ IsJson(twilio[id].upstream)
               THEN [@ EXCEPT !.at = "done",
                       !.answers = Append(@, Answer(200, "application/json",
                                                    twilio[id].upstream))]
               ELSE [@ EXCEPT !.at = "done", !.failed = TRUE,
                       !.answers = Append(@, proxy_error(twilio[id].function))]]
    /\ UNCHANGED serverVars

ProxyFunctions == {"twilioVoice", "twilioStatus"}

NextTwilio ==
    \/ \E id \in RequestIds, function \in ProxyFunctions, method \in Methods :
         TwilioRequest(id, function, method)
    \/ \E id \in RequestIds, ok \in BOOLEAN, body \in UpstreamBodies :
         TwilioFetch(id, ok, body)
    \/ \E id \in RequestIds, read_ok \in BOOLEAN : TwilioBody(id, read_ok)

SpecTwilio == Init /\ [][NextTwilio]_vars

\* ------------------------------------------------ useSimplePipecatClient

\* The variables useSimplePipecatClient leaves alone.
simpleFrame == <<serverVars, twilio, webrtc, mounted, pipecat, component>>

\* A close handler that keeps the call.
onclose_state_only(w) == [w EXCEPT !.connectionState = "disconnected"]

\* ws.onclose: setConnectionState('disconnected'); setIsCallActive(false).
onclose(w) ==
    [w EXCEPT !.connectionState = "disconnected", !.isCallActive = FALSE]

\* startCall: the state, then new WebSocket(serverUrl), which throws on a
\* URL it cannot parse (ok = FALSE), and the handlers on it.
SimpleStartCall(ok) ==
    /\ mounted = "useSimplePipecatClient"
    /\ simple.calls < MaxCalls
    /\ LET id == simple.calls + 1 IN
       simple' =
         IF ok
         THEN [simple EXCEPT
                !.isCallActive = TRUE,
                !.connectionState = "connecting",
                !.calls = id,
                !.sockets = @ @@ (id :> [readyState |-> "CONNECTING",
                                         session |-> FALSE]),
                !.websocketRef = id,
                !.ended = FALSE]
         ELSE [simple EXCEPT
                !.isCallActive = FALSE,
                !.connectionState = "disconnected",
                !.calls = id,
                !.ended = FALSE]
    /\ UNCHANGED simpleFrame

\* ws.onopen: 'connected', then startAudioCapture up to its getUserMedia.
SimpleSocketOpen(id) ==
    /\ mounted = "useSimplePipecatClient"
    /\ id \in DOMAIN simple.sockets
    /\ simple.sockets[id].readyState = "CONNECTING"
    /\ simple' = [simple EXCEPT
          !.sockets[id].readyState = "OPEN",
          !.connectionState = "connected",
          !.pending[id] = @ + 1]
    /\ UNCHANGED simpleFrame

\* ws.onmessage, 'session-created': startAudioCapture up to its getUserMedia.
\* The server sends the message once on a connection.
SimpleSessionCreated(id) ==
    /\ mounted = "useSimplePipecatClient"
    /\ id \in DOMAIN simple.sockets
    /\ simple.sockets[id].readyState = "OPEN"
    /\ ~simple.sockets[id].session
    /\ simple' = [simple EXCEPT
          !.sockets[id].session = TRUE,
          !.pending[id] = @ + 1]
    /\ UNCHANGED simpleFrame

\* ws.onmessage, binary audio: playBinaryAudio makes an audio context when
\* audioContextRef holds none.
SimpleAudio(id) ==
    /\ mounted = "useSimplePipecatClient"
    /\ id \in DOMAIN simple.sockets
    /\ simple.sockets[id].readyState = "OPEN"
    /\ simple.audioContextRef = "null"
    /\ simple' = [simple EXCEPT !.audioContextRef = "open"]
    /\ UNCHANGED simpleFrame

\* startAudioCapture after its getUserMedia: the stream and a new audio
\* context go into the refs, or the catch reports the error.
SimpleMedia(c, ok) ==
    /\ mounted = "useSimplePipecatClient"
    /\ simple.pending[c] > 0
    /\ simple' =
         IF ok
         THEN [simple EXCEPT
                !.pending[c] = @ - 1,
                !.captures[c] = @ + 1,
                !.streams = @ \/ simple.localStreamRef,
                !.localStreamRef = TRUE,
                !.contexts = @ \/ simple.audioContextRef = "open",
                !.audioContextRef = "open"]
         ELSE [simple EXCEPT !.pending[c] = @ - 1]
    /\ UNCHANGED simpleFrame

\* ws.onerror.
SimpleSocketError(id) ==
    /\ mounted = "useSimplePipecatClient"
    /\ id \in DOMAIN simple.sockets
    /\ simple' = [simple EXCEPT !.connectionState = "failed"]
    /\ UNCHANGED simpleFrame

\* The socket is closed and its onclose runs.
SimpleSocketClose(id) ==
    /\ mounted = "useSimplePipecatClient"
    /\ id \in DOMAIN simple.sockets
    /\ simple' = [onclose(simple) EXCEPT
          !.sockets = [i \in DOMAIN @ \ {id} |-> @[i]]]
    /\ UNCHANGED simpleFrame

\* endCall after its audio context closed (at once when it held none):
\* audioContextRef = null, then close the socket of websocketRef.
endCall_close(w) ==
    [w EXCEPT
       !.contexts = @ \/ w.audioContextRef = "open",
       !.audioContextRef = "null",
       !.sockets = [i \in DOMAIN @ |->
                      IF i = w.websocketRef
                      THEN [@[i] EXCEPT !.readyState = "CLOSING"]
                      ELSE @[i]],
       !.websocketRef = 0,
       !.ending = FALSE]

\* endCall up to its await: the state, the tracks of localStreamRef stopped,
\* the audio context of audioContextRef told to close.  endCall is not
\* called again while one waits for the context.
SimpleEndCall ==
    /\ mounted = "useSimplePipecatClient"
    /\ ~simple.ending
    /\ LET stopped == [simple EXCEPT
                         !.isCallActive = FALSE,
                         !.connectionState = "disconnected",
                         !.localStreamRef = FALSE,
                         !.ended = TRUE]
       IN simple' =
            IF simple.audioContextRef # "null"
            THEN [stopped EXCEPT !.audioContextRef = "closed", !.ending = TRUE]
            ELSE endCall_close(stopped)
    /\ UNCHANGED simpleFrame

\* endCall after await audioContextRef.current.close().
SimpleEndCallClosed ==
    /\ mounted = "useSimplePipecatClient"
    /\ simple.ending
    /\ simple' = endCall_close(simple)
    /\ UNCHANGED simpleFrame

NextSimple ==
    \/ \E ok \in BOOLEAN : SimpleStartCall(ok)
    \/ \E id \in 1..MaxCalls : SimpleSocketOpen(id)
    \/ \E id \in 1..MaxCalls : SimpleSessionCreated(id)
    \/ \E id \in 1..MaxCalls : SimpleAudio(id)
    \/ \E c \in 1..MaxCalls, ok \in BOOLEAN : SimpleMedia(c, ok)
    \/ \E id \in 1..MaxCalls : SimpleSocketError(id)
    \/ \E id \in 1..MaxCalls : SimpleSocketClose(id)
    \/ SimpleEndCall
    \/ SimpleEndCallClosed

\* ------------------------------------------------------ usePipecatClient

\* The variables usePipecatClient leaves alone.
pipecatFrame == <<serverVars, twilio, webrtc, mounted, simple, component>>

\* The catch of startCall.
start_failed(w) ==
    [w EXCEPT !.error = "Failed to start call", !.isCallActive = FALSE,
              !.connectionState = "disconnected"]

\* startCall up to await getUserMedia.
PipecatStartCall ==
    /\ mounted = "usePipecatClient"
    /\ Len(pipecat.calls) < MaxCalls
    /\ pipecat' = [pipecat EXCEPT
          !.error = "", !.isCallActive = TRUE,
          !.connectionState = "connecting",
          !.calls = Append(@, "media"),
          !.ended = FALSE]
    /\ UNCHANGED pipecatFrame

\* startCall after getUserMedia: the stream, the transport client and its
\* handlers, up to await client.connect(); or the catch.
PipecatMedia(c, ok) ==
    /\ mounted = "usePipecatClient"
    /\ c \in DOMAIN pipecat.calls
    /\ pipecat.calls[c] = "media"
    /\ pipecat' =
         IF ok
         THEN [pipecat EXCEPT
                !.localStreamRef = TRUE,
                !.clients = @ @@ (c :> "connecting"),
                !.clientRef = c,
                !.calls[c] = "connect"]
         ELSE [start_failed(pipecat) EXCEPT !.calls[c] = "done"]
    /\ UNCHANGED pipecatFrame

\* startCall after await client.connect(): done, or the catch.
PipecatConnect(c, ok) ==
    /\ mounted = "usePipecatClient"
    /\ c \in DOMAIN pipecat.calls
    /\ pipecat.calls[c] = "connect"
    /\ pipecat' =
         IF ok
         THEN [pipecat EXCEPT !.calls[c] = "done"]
         ELSE [start_failed(pipecat) EXCEPT !.calls[c] = "done"]
    /\ UNCHANGED pipecatFrame

\* client.on('connected').
PipecatConnected(id) ==
    /\ mounted = "usePipecatClient"
    /\ id \in DOMAIN pipecat.clients
    /\ pipecat.clients[id] = "connecting"
    /\ pipecat' = [pipecat EXCEPT
          !.clients[id] = "connected",
          !.connectionState = "connected",
          !.botReady = TRUE]
    /\ UNCHANGED pipecatFrame

\* client.on('error').
PipecatError(id) ==
    /\ mounted = "usePipecatClient"
    /\ id \in DOMAIN pipecat.clients
    /\ pipecat' = [pipecat EXCEPT
          !.error = "Connection error",
          !.connectionState = "failed"]
    /\ UNCHANGED pipecatFrame

\* client.on('disconnected'): the client is gone.
PipecatDisconnected(id) ==
    /\ mounted = "usePipecatClient"
    /\ id \in DOMAIN pipecat.clients
    /\ pipecat' = [pipecat EXCEPT
          !.clients = [i \in DOMAIN @ \ {id} |-> @[i]],
          !.connectionState = "disconnected",
          !.botReady = FALSE,
          !.isCallActive = FALSE]
    /\ UNCHANGED pipecatFrame

\* endCall: the state, the tracks stopped, the client of clientRef told to
\* disconnect; the await changes clientRef only.
PipecatEndCall ==
    /\ mounted = "usePipecatClient"
    /\ pipecat' = [pipecat EXCEPT
          !.isCallActive = FALSE,
          !.connectionState = "disconnected",
          !.botReady = FALSE,
          !.localStreamRef = FALSE,
          !.clients = [i \in DOMAIN @ |->
                         IF i = pipecat.clientRef THEN "disconnecting" ELSE @[i]],
          !.clientRef = 0,
          !.ended = TRUE]
    /\ UNCHANGED pipecatFrame

NextPipecatHook ==
    \/ PipecatStartCall
    \/ \E c \in 1..MaxCalls, ok \in BOOLEAN : PipecatMedia(c, ok)
    \/ \E c \in 1..MaxCalls, ok \in BOOLEAN : PipecatConnect(c, ok)
    \/ \E id \in 1..MaxCalls : PipecatConnected(id)
    \/ \E id \in 1..MaxCalls : PipecatError(id)
    \/ \E id \in 1..MaxCalls : PipecatDisconnected(id)
    \/ PipecatEndCall

\* ------------------------------------------- the SimplePipecatClient component

\* The variables the SimplePipecatClient component leaves alone.
componentFrame == <<serverVars, twilio, webrtc, mounted, simple, pipecat>>

\* startCall up to await getUserMedia.
ComponentStartCall ==
    /\ mounted = "SimplePipecatClient"
    /\ Len(component.calls) < MaxCalls
    /\ component' = [component EXCEPT
          !.error = "", !.isCallActive = TRUE,
          !.connectionState = "connecting",
          !.calls = Append(@, "media"),
          !.ended = FALSE]
    /\ UNCHANGED componentFrame

\* startCall after getUserMedia: the stream, the WebSocket and its handlers;
\* or the catch.
ComponentMedia(c, ok) ==
    /\ mounted = "SimplePipecatClient"
    /\ c \in DOMAIN component.calls
    /\ component.calls[c] = "media"
    /\ component' =
         IF ok
         THEN [component EXCEPT
                !.mediaStreamRef = TRUE,
                !.sockets = @ @@ (c :> "CONNECTING"),
                !.websocketRef = c,
                !.calls[c] = "done"]
         ELSE [start_failed(component) EXCEPT !.calls[c] = "done"]
    /\ UNCHANGED componentFrame

\* ws.onopen: 'connected' and startAudioProcessing.
ComponentSocketOpen(id) ==
    /\ mounted = "SimplePipecatClient"
    /\ id \in DOMAIN component.sockets
    /\ component.sockets[id] = "CONNECTING"
    /\ component' = [component EXCEPT
          !.sockets[id] = "OPEN",
          !.connectionState = "connected",
          !.audioContextRef = TRUE]
    /\ UNCHANGED componentFrame

\* ws.onerror.
ComponentSocketError(id) ==
    /\ mounted = "SimplePipecatClient"
    /\ id \in DOMAIN component.sockets
    /\ component' = [component EXCEPT
          !.error = "Connection failed",
          !.connectionState = "disconnected",
          !.isCallActive = FALSE]
    /\ UNCHANGED componentFrame

\* The socket is closed and its onclose runs.
ComponentSocketClose(id) ==
    /\ mounted = "SimplePipecatClient"
    /\ id \in DOMAIN component.sockets
    /\ component' = [component EXCEPT
          !.sockets = [i \in DOMAIN @ \ {id} |-> @[i]],
          !.connectionState = "disconnected",
          !.isCallActive = FALSE]
    /\ UNCHANGED componentFrame

\* endCall: the state, the audio context closed, the tracks stopped, the
\* socket of websocketRef closed; the await changes the refs only.
ComponentEndCall ==
    /\ mounted = "SimplePipecatClient"
    /\ component' = [component EXCEPT
          !.isCallActive = FALSE,
          !.connectionState = "disconnected",
          !.audioContextRef = FALSE,
          !.mediaStreamRef = FALSE,
          !.sockets = [i \in DOMAIN @ |->
                         IF i = component.websocketRef THEN "CLOSING" ELSE @[i]],
          !.websocketRef = 0,
          !.ended = TRUE]
    /\ UNCHANGED componentFrame

NextComponent ==
    \/ ComponentStartCall
    \/ \E c \in 1..MaxCalls, ok \in BOOLEAN : ComponentMedia(c, ok)
    \/ \E id \in 1..MaxCalls : ComponentSocketOpen(id)
    \/ \E id \in 1..MaxCalls : ComponentSocketError(id)
    \/ \E id \in 1..MaxCalls : ComponentSocketClose(id)
    \/ ComponentEndCall

\* ------------------------------------------------- the three Pipecat clients

\* A page built on any one of the three clients.
InitPipecat ==
    /\ ServerInit
    /\ twilio = [id \in RequestIds |-> NoRequest]
    /\ webrtc = WebRTCInit
    /\ mounted \in PipecatClients
    /\ simple = SimpleInit
    /\ pipecat = PipecatInit
    /\ component = ComponentInit

NextPipecat ==
    \/ NextSimple
    \/ NextPipecatHook
    \/ NextComponent

SpecPipecat == InitPipecat /\ [][NextPipecat]_vars

\* ---------------------------------------------- alternatives on busy calendars

\* An event of the shared calendar that keeps the doctor busy from the start of
\* a working day for dur minutes.
Busy(date, dur) ==
    [date |-> date, start |-> WorkStart, dur |-> dur, doctor |-> "DrRao",
     patient |-> "Leave", email |-> NoEmail]

\* Days of the week after Today that may be busy one by one, and the days
\* after them, which are busy together or not at all.
BusyDays == {Today, Today + 2, Today + 3}
LaterDays == {Today + 4, Today + 5, Today + 6}
\* A day is free (0), busy until closing time, or busy until an hour before it.
DayShapes == {0, WorkEnd - WorkStart, WorkEnd - WorkStart - 60}

\* Calendars check_availability may find: busy days, and the 09:00 appointment
\* of a patient on Today.
Calendars ==
    { SetToBag({Busy(d, f[d]) : d \in {x \in BusyDays : f[x] > 0}}
               \cup later \cup appointment) :
        f \in [BusyDays -> DayShapes],
        later \in {{}, {Busy(d, WorkEnd - WorkStart) : d \in LaterDays}},
        appointment \in {{}, {BookedEvent("s1", Today, WorkStart, "DrRao")}} }

\* Slots asked of check_availability on these calendars: 09:00 and 17:00 of
\* Today and noon of the last busy day.
SuggestSlots == {<<Today, WorkStart>>, <<Today, WorkEnd - 60>>, <<Today + 6, 12 * 60>>}

InitSuggest ==
    /\ ClientInit
    /\ events \in Calendars
    /\ pc = [s \in Sessions |-> "idle"]
    /\ req = [s \in Sessions |-> NoReq]
    /\ session_call_records = [s \in Sessions |-> NewCallRecord]
    /\ patient_database = [p \in {} |-> convert_to_dict(InitialSheet[1])]
    /\ patient_sheet = InitialSheet
    /\ active_sessions = Sessions
    /\ saved_call_records = <<>>
    /\ sentMail = 0
    /\ callLog = 0
    /\ verified = 0
    /\ last = NoCall

NextSuggest ==
    \E slot \in SuggestSlots : CheckAvailability(slot[1], slot[2], DefaultDuration)

\* check_availability, and with it _suggest_alternative_slots, on any of the
\* calendars above.
SpecSuggest == InitSuggest /\ [][NextSuggest]_vars

\* ------------------------------------------------------------------ claims

\* Position of a step in the steps of a call.
StepIndex(steps, x) == CHOOSE i \in 1..Len(steps) : steps[i] = x

StepsOf(steps) == {steps[i] : i \in 1..Len(steps)}

\* Two events overlap by a positive duration.
Overlap(e1, e2) == EvStart(e1) < EvEnd(e2) /\ EvStart(e2) < EvEnd(e1)

\* The interval a request asks for.
LastStart == Abs(last.date, last.time)
LastEnd == Abs(last.date, last.time + last.dur)

\* C1: no two committed calendar events of the same doctor overlap in time
\* by a positive duration, whatever check, book and cancel calls ran and
\* however the sessions interleaved.
C1_NoDoubleBooking ==
    \A e1 \in BagToSet(events) :
        /\ CopiesIn(e1, events) = 1
        /\ \A e2 \in BagToSet(events) \ {e1} :
               e1.doctor = e2.doctor => ~Overlap(e1, e2)

\* C2: a booking reaches its commit steps only after the availability check
\* of that same call has returned available = true, and the check is the
\* first step of every booking.
C2_CommitOnlyAfterAvailable ==
    /\ \A s \in Sessions : pc[s] = "commit" => req[s].verify = "available"
    /\ last.op = "book" =>
          /\ last.steps[1] = "check_availability"
          /\ "create_calendar_event" \in StepsOf(last.steps)
                => last.verify = "available"

\* C3: a booking whose verify step reports the slot unavailable returns
\* success = false and has no commit side effect: the calendar, the mail, the
\* patient records and the call record of the session are as before.
C3_UnavailableHasNoSideEffect ==
    [][(last' # last /\ last'.op = "book" /\ last'.verify = "unavailable")
          => /\ last'.success = FALSE
             /\ events' = events
             /\ sentMail' = sentMail
             /\ patient_database' = patient_database
             /\ session_call_records' = session_call_records]_vars

\* C4: in the commit phase the calendar event is created before the
\* confirmation mail is sent, so no confirmation is sent for a booking whose
\* event was not created.
C4_EventBeforeMail ==
    (last.op = "book" /\ "send_confirmation_email" \in StepsOf(last.steps))
       => /\ StepIndex(last.steps, "create_calendar_event")
               < StepIndex(last.steps, "send_confirmation_email")
          /\ last.email_sent => last.calendar_added

\* C5: when the calendar event was created and the confirmation mail failed,
\* the booking returns success = true with email_sent = false and the event
\* is still on the calendar.
C5_MailFailureKeepsBooking ==
    (last.op = "book" /\ last.created = "created" /\ ~last.email_sent)
       => /\ last.success
          /\ last.calendar_added
          /\ \E e \in BagToSet(events) :
                /\ e.date = last.date /\ e.start = last.time
                /\ e.doctor = last.doctor /\ e.patient = PatientName(last.session)

C5_Witness ==
    /\ last.op = "book" /\ last.created = "created" /\ ~last.email_sent
    /\ last.success

\* C6: a booking whose availability check failed or gave no usable answer
\* is treated as unavailable: it attempts no commit step and does not
\* succeed.
C6_CalendarFailureFailsSafe ==
    (last.op = "book" /\ last.verify \in {"noanswer", "raise"})
       => /\ ~last.success
          /\ last.created = "none"
          /\ StepsOf(last.steps) \cap
                {"send_confirmation_email", "create_calendar_event",
                 "log_call_record"} = {}

\* C7: a check of a conflict-free slot answers available and a check of a
\* booked slot answers unavailable; a booking of a slot that is already booked
\* fails with a non-empty list of alternatives and leaves exactly one event on
\* that slot.
C7_SecondBookingRejected ==
    /\ (last.op = "check" /\ last.verify # "raise")
          => /\ (\A e \in BagToSet(events) : EvEnd(e) <= LastStart \/ EvStart(e) >= LastEnd)
                   => last.available
             /\ (\E e \in BagToSet(events) : e.date = last.date /\ e.start = last.time)
                   => ~last.available
    /\ (last.op = "book" /\ last.taken)
          => /\ ~last.success
             /\ last.alternatives # <<>>
             /\ \A e \in SameSlot(events, last.date, last.time, last.doctor) :
                    /\ CopiesIn(e, events) = 1
                    /\ SameSlot(events, last.date, last.time, last.doctor) = {e}

\* C8: of two sessions that book the same doctor, date and time and both
\* pass the verify step, the one that finds the slot occupied at its commit
\* does not return success = true: it returns success = false with
\* alternatives.
C8_ConflictAtCommitIsFailure ==
    (last.op = "book" /\ last.verify = "available" /\ last.taken)
       => /\ ~last.success
          /\ last.alternatives # <<>>

\* C9: check_availability answers unavailable exactly when an event of the
\* calendar overlaps the requested interval by a positive duration; events
\* that only touch an endpoint of the interval leave the slot available.
C9_ConflictIffOverlap ==
    (last.op = "check" /\ last.verify # "raise")
       => (last.available
             <=> \A e \in BagToSet(events) :
                    EvEnd(e) <= LastStart \/ EvStart(e) >= LastEnd)

C9_Witness ==
    /\ last.op = "check" /\ last.available
    /\ \E e \in BagToSet(events) : EvEnd(e) = LastStart \/ EvStart(e) = LastEnd

\* C10: a check of a slot outside working hours or on a non-working day
\* answers unavailable without listing the calendar's events, and its
\* alternatives lie inside working hours.
C10_OutsideHoursUnavailable ==
    (/\ last.op = "check"
     /\ \/ last.time < WorkStart
        \/ last.time + last.dur > WorkEnd
        \/ Weekday(last.date) = Sunday)
       => /\ ~last.available
          /\ ~last.listed
          /\ \A i \in 1..Len(last.alternatives) :
                /\ last.alternatives[i].start >= WorkStart
                /\ last.alternatives[i].start + DefaultDuration <= WorkEnd

\* C11: a check request for a past date is answered with a validation error,
\* never with an available / unavailable result, and the calendar is not
\* queried for it.
C11_PastDateIsValidationError ==
    (last.op = "check" /\ last.date < Today /\ last.verify # "raise")
       => /\ last.verify = "invalid"
          /\ ~last.listed
          /\ ~last.available

\* C12: no two alternatives returned for a request overlap each other, and
\* every alternative starts and ends inside the working hours of a working
\* day.
C12_SuggestionsDisjointInHours ==
    last.op = "check" =>
       \A i \in 1..Len(last.alternatives) :
          /\ last.alternatives[i].start >= WorkStart
          /\ last.alternatives[i].start + DefaultDuration <= WorkEnd
          /\ Weekday(last.alternatives[i].date) # Sunday
          /\ \A j \in (i + 1)..Len(last.alternatives) :
                \/ last.alternatives[i].date # last.alternatives[j].date
                \/ last.alternatives[i].start + DefaultDuration
                      <= last.alternatives[j].start
                \/ last.alternatives[j].start + DefaultDuration
                      <= last.alternatives[i].start

\* Five alternatives that end at closing time and go on after the Sunday.
C12_Witness ==
    /\ last.op = "check"
    /\ Len(last.alternatives) = SuggestCount
    /\ \E i, j \in 1..Len(last.alternatives) :
          /\ last.alternatives[i].date = last.date
          /\ last.alternatives[i].start + DefaultDuration = WorkEnd
          /\ last.alternatives[j].date > last.date + 1

\* C13: every alternative of an availability answer is free on the calendar
\* the answer was computed from: it overlaps no event of it, so the check of
\* a slot that has just been booked does not list that slot.
C13_AlternativesAreFree ==
    (last.op = "check" \/ (last.op = "book" /\ last.verify = "unavailable"))
       => \A i \in 1..Len(last.alternatives) :
             \A e \in BagToSet(events) :
                \/ EvEnd(e) <= Abs(last.alternatives[i].date, last.alternatives[i].start)
                \/ EvStart(e) >= Abs(last.alternatives[i].date,
                                     last.alternatives[i].start + DefaultDuration)

\* The check of a booked slot, next to another booked slot, with alternatives.
C13_Witness ==
    /\ last.op = "check"
    /\ last.alternatives # <<>>
    /\ \E e1, e2 \in BagToSet(events) :
          /\ e1.date = last.date /\ e1.start = last.time
          /\ e2.date = last.date /\ e2.start = last.time + DefaultDuration

\* The free grid slots of the scan window of a request, as <<date, start>>.
FreeCandidates(evs, date) ==
    {c \in (date..(date + WindowDays - 1)) \X {GridTime(k) : k \in 0..LastGrid} :
        Weekday(c[1]) # Sunday /\ SlotFree(evs, c[1], c[2])}

\* The ranking key of an alternative does not exceed that of the next one:
\* date distance first, then distance in time of day from the request.
RankedBefore(a, b) ==
    \/ a.date - last.date < b.date - last.date
    \/ /\ a.date = b.date
       /\ AbsDiff(a.start, last.time) <= AbsDiff(b.start, last.time)

\* C14: the alternatives of a request are at most SuggestCount, all dated
\* within WindowDays from the requested date, in non-decreasing order of the
\* ranking key, and fewer than SuggestCount only when they are all the free
\* slots of the window.
C14_SuggestCountWindowOrder ==
    (last.op = "check" /\ last.verify = "unavailable")
       => /\ Len(last.alternatives) <= SuggestCount
          /\ \A i \in 1..Len(last.alternatives) :
                /\ last.alternatives[i].date >= last.date
                /\ last.alternatives[i].date < last.date + WindowDays
          /\ \A i \in 1..(Len(last.alternatives) - 1) :
                RankedBefore(last.alternatives[i], last.alternatives[i + 1])
          /\ Len(last.alternatives) < SuggestCount
                => Len(last.alternatives)
                     = Cardinality(FreeCandidates(events, last.date))

\* Alternatives on two dates, fewer than SuggestCount.
C14_Witness ==
    /\ last.op = "check" /\ last.verify = "unavailable"
    /\ Len(last.alternatives) < SuggestCount
    /\ \E i, j \in 1..Len(last.alternatives) :
          last.alternatives[i].date < last.alternatives[j].date

\* C15: an availability answer with available = true has no conflicts and no
\* alternatives; alternatives come only with available = false.
C15_AvailableHasNoAlternatives ==
    (last.op = "check" /\ last.available)
       => /\ last.conflicts = {}
          /\ last.alternatives = <<>>

\* An available answer on a calendar that holds an appointment.
C15_Witness ==
    /\ last.op = "check" /\ last.available
    /\ \E e \in BagToSet(events) : e.date = last.date

\* The cancellation request of the call that finished last.
LastRequest ==
    [name |-> last.name, time |-> last.time, doctor |-> last.doctor,
     email |-> last.email]

C17_NoMatchChangesNothing ==
    [][(last'.op = "cancel" /\ ~last'.found /\ last' # last)
          => /\ events' = events
             /\ sentMail' = sentMail
             /\ callLog' = callLog
             /\ session_call_records' = session_call_records
             /\ patient_database' = patient_database
             /\ CancelMatches(events', last'.date, LastRequest') = {}]_vars

\* A cancellation 20 minutes off the caller's appointment that found nothing.
C17_Witness ==
    /\ last.op = "cancel" /\ ~last.found
    /\ last.name = PatientName(last.session)
    /\ \E e \in BagToSet(events) :
          /\ e.patient = last.name /\ e.date = last.date
          /\ AbsDiff(e.start, last.time) = 20

\* C18: a cancellation that matches removes exactly one event, marks the
\* session's call record as a resolved cancellation, and frees the slot: a
\* check of the slot right after it answers available and the same
\* cancellation made again finds nothing.
C18_MatchRemovesAndFrees ==
    [][(last'.op = "cancel" /\ last'.found /\ (last' # last \/ events' # events))
          => /\ \E e \in BagToSet(events) :
                   /\ events' = events (-) SetToBag({e})
                   /\ check_availability(events', e.date, e.start, e.dur).available
             /\ session_call_records'[last'.session].call_type = "cancellation"
             /\ session_call_records'[last'.session].status = "resolved"
             /\ CancelMatches(events', last'.date, LastRequest') = {}]_vars

\* The call that finished last ran update_call_record, and with it
\* detect_customer_type on the phone of the booking.
Identified ==
    /\ last'.op = "book"
    /\ "update_call_record" \in StepsOf(last'.steps)
    /\ \/ last' # last
       \/ patient_database' # patient_database
       \/ session_call_records' # session_call_records

C20_SessionCacheIsolated ==
    [][Identified =>
          /\ \A s \in Sessions \ {last'.session} :
                session_call_records'[s] = session_call_records[s]
          /\ session_call_records'[last'.session].customer_type = "existing"
                => session_call_records[last'.session].customer_type # ""]_vars

\* C21: session memory and the Patients sheet hold at most one record per
\* phone: storing patient info for a phone that has a row already adds no
\* second row.
C21_OneRecordPerPhone ==
    \A phone \in {patient_sheet[i].phone : i \in 1..Len(patient_sheet)} :
        Len(get_patient_by_phone(patient_sheet, phone)) = 1

\* Patient info was stored by the call that finished last.
Stored ==
    /\ last'.op = "store"
    /\ \/ last' # last
       \/ patient_database' # patient_database
       \/ patient_sheet' # patient_sheet

\* C23: when the Patients sheet rejects the row, storing the patient info
\* still succeeds, session memory holds the merged info (the new email, the
\* name it had), and a detection of the phone after it answers existing with
\* that info, not with the row of the sheet.
C23_StoreFailureKeepsCache ==
    [][(Stored /\ ~last'.stored)
          => /\ last'.success
             /\ patient_sheet' = patient_sheet
             /\ last'.phone \in DOMAIN patient_database'
             /\ patient_database'[last'.phone].email = last'.email
             /\ last'.phone \in DOMAIN patient_database
                   => patient_database'[last'.phone].name
                        = patient_database[last'.phone].name
             /\ detect_customer_type(patient_database', last'.phone).tag = "existing"
             /\ detect_customer_type(patient_database', last'.phone).record
                   = <<patient_database'[last'.phone]>>]_vars

\* A rejected row for a phone whose row on the sheet has another email.
C23_Witness ==
    /\ last.op = "store" /\ ~last.stored /\ last.success
    /\ \E i \in 1..Len(patient_sheet) :
          /\ patient_sheet[i].phone = last.phone
          /\ patient_sheet[i].email # patient_database[last.phone].email

\* cleanup_session was the call that finished last.
Cleaned ==
    /\ last'.op = "cleanup"
    /\ \/ last' # last
       \/ saved_call_records' # saved_call_records
       \/ active_sessions' # active_sessions

\* C24: the first cleanup of a session saves its call record, once, and
\* removes the session's entry; a cleanup of a session that has no entry any
\* more is reported as an error and saves nothing.
C24_PersistedExactlyOnce ==
    [][Cleaned
          => IF last'.session \in DOMAIN session_call_records
             THEN /\ Len(SavedRows(saved_call_records', last'.session)) = 1
                  /\ last'.session \notin DOMAIN session_call_records'
             ELSE /\ ~last'.success
                  /\ saved_call_records' = saved_call_records]_vars

\* C25: every session is cleaned up in the end and has a saved call record
\* whose status is not in_progress any more.
C25_EverySessionFinalized ==
    \A s \in Sessions :
        <>(/\ s \notin active_sessions
           /\ SavedRows(saved_call_records, s) # <<>>
           /\ SavedRows(saved_call_records, s)[1].record.status # "in_progress")

\* C26: the record a cleanup saves has status partially_resolved if the
\* status of the session's record was still the in_progress of its
\* construction, and the status of the session's record otherwise.
C26_FinalizeDefaultsStatus ==
    [][(Cleaned /\ last'.stored)
          => saved_call_records'[Len(saved_call_records')].record.status
               = IF session_call_records[last'.session].status = "in_progress"
                 THEN "partially_resolved"
                 ELSE session_call_records[last'.session].status]_vars

\* C27: the saved rows of a session that has one stay as they are, whatever
\* is called with the session's id afterwards.
C27_FinalizedRecordImmutable ==
    [][\A s \in Sessions :
          SavedRows(saved_call_records, s) # <<>>
             => SavedRows(saved_call_records', s)
                  = SavedRows(saved_call_records, s)]_vars

\* A booking or a cancellation that ran its call record update for a session
\* whose record was saved, and removed, before.
C27_Witness ==
    /\ last.op \in {"book", "cancel"}
    /\ last.success
    /\ "update_call_record" \in StepsOf(last.steps)
    /\ SavedRows(saved_call_records, last.session) # <<>>
    /\ last.session \notin DOMAIN session_call_records

\* C28: there are never more than max_sessions active sessions.
C28_ActiveSessionsBounded ==
    Cardinality(active_sessions) <= max_sessions

\* The field of the call record that holds an argument.
FieldOf ==
    ("patient_name" :> "customer_name") @@ ("email" :> "customer_email")
        @@ ("department" :> "department_enquired")
        @@ ("doctor_name" :> "doctor_enquired")

\* A function call that update_from_function_call handles updated the record.
Updated ==
    /\ last'.op = "update"
    /\ last'.function = "check_appointment_availability"
    /\ \/ last' # last
       \/ session_call_records' # session_call_records

\* C29: an update of a session's call record gives every field whose argument
\* is in the call the value of the argument and leaves every other field, and
\* the record of every other session, as it was; a booking leaves the
\* department, which it does not supply, and the status as they were.
C29_UpdateChangesSuppliedFieldsOnly ==
    [][/\ Updated
          => /\ \A key \in DOMAIN FieldOf :
                  session_call_records'[last'.session][FieldOf[key]]
                    = IF key \in DOMAIN last'.arguments
                      THEN last'.arguments[key]
                      ELSE session_call_records[last'.session][FieldOf[key]]
             /\ session_call_records'[last'.session].status
                  = session_call_records[last'.session].status
             /\ \A s \in DOMAIN session_call_records \ {last'.session} :
                  session_call_records'[s] = session_call_records[s]
       /\ (last'.op = "book" /\ last'.session \in DOMAIN session_call_records)
          => /\ session_call_records'[last'.session].department_enquired
                  = session_call_records[last'.session].department_enquired
             /\ session_call_records'[last'.session].status
                  = session_call_records[last'.session].status]_vars

\* C30: when the detection of a booking answers returning, the row it found
\* is in session memory afterwards, and the next detection of the same phone
\* answers existing with the same patient info, from session memory alone
\* and without changing it.
C30_ReturningThenExisting ==
    [][(/\ Identified
        /\ last'.session \in DOMAIN session_call_records
        /\ detect_customer_type(patient_database, last'.phone).tag = "returning")
          => /\ session_call_records'[last'.session].customer_type = "returning"
             /\ last'.phone \in DOMAIN patient_database'
             /\ detect_customer_type(patient_database', last'.phone).tag = "existing"
             /\ detect_customer_type(patient_database', last'.phone).record
                  = detect_customer_type(patient_database, last'.phone).record
             /\ ~detect_customer_type(patient_database', last'.phone).lookup
             /\ detect_customer_type(patient_database', last'.phone).db
                  = patient_database']_vars

\* A booking whose caller was found on the Patients sheet, with the row of the
\* sheet in session memory after it.
C30_Witness ==
    /\ last.op = "book"
    /\ session_call_records[last.session].customer_type = "returning"
    /\ last.phone \in DOMAIN patient_database
    /\ <<patient_database[last.phone]>>
         = <<convert_to_dict(get_patient_by_phone(patient_sheet, last.phone)[1])>>

\* C31: the sessions of active_sessions are the sessions that have a
\* CallRecord in session_call_records.
C31_SessionsHaveRecords ==
    active_sessions = DOMAIN session_call_records

\* Sessions were created and cleaned up, and some are still active.
C31_Witness ==
    /\ last.op = "cleanup" /\ last.stored
    /\ active_sessions # {}
    /\ saved_call_records # <<>>

\* The requests the proxy functions have answered or are working on.
Arrived == {id \in RequestIds : twilio[id].at # "none"}

\* Every request is answered at most once, and once when it is done; a
\* request whose forwarding failed is answered 500; a twilioVoice request that
\* was forwarded and read is answered 200, application/xml, with the body of
\* the local server.
ProxyAnswers ==
    \A id \in Arrived :
        /\ Len(twilio[id].answers) <= 1
        /\ twilio[id].at = "done" <=> Len(twilio[id].answers) = 1
        /\ twilio[id].failed
              => twilio[id].at = "done" /\ twilio[id].answers[1].status = 500
        /\ (/\ twilio[id].at = "done" /\ twilio[id].method = "POST"
            /\ ~twilio[id].failed /\ twilio[id].function = "twilioVoice")
              => twilio[id].answers[1]
                   = Answer(200, "application/xml", twilio[id].upstream)

\* C40 as stated: every request that is not a POST is answered 405 and not
\* forwarded, and the answers are as in ProxyAnswers.
C40_ProxyAnswersEveryNonPost405 ==
    /\ ProxyAnswers
    /\ \A id \in Arrived :
          twilio[id].method # "POST"
             => /\ twilio[id].forwarded = 0
                /\ twilio[id].answers[1].status = 405

\* C40 amended: a preflight (OPTIONS) request is answered 204 by cors, every
\* other request that is not a POST is answered 405, neither is forwarded,
\* and the answers are as in ProxyAnswers.
C40_ProxyAnswersByMethod ==
    /\ ProxyAnswers
    /\ \A id \in Arrived :
          twilio[id].method # "POST"
             => /\ twilio[id].forwarded = 0
                /\ twilio[id].at = "done"
                /\ twilio[id].answers[1].status
                     = IF twilio[id].method = "OPTIONS" THEN 204 ELSE 405

\* A GET was refused, and a twilioVoice POST was forwarded and answered.
C40_Witness ==
    \E a, b \in Arrived :
        /\ twilio[a].method = "GET" /\ twilio[a].at = "done"
        /\ twilio[b].method = "POST" /\ twilio[b].at = "done"
        /\ twilio[b].function = "twilioVoice" /\ ~twilio[b].failed

\* The peer connection of peerConnectionRef reported failed or disconnected
\* to callbacks that see an active call.
PeerLost ==
    /\ webrtc.peerConnectionRef.open /\ webrtc.peerConnectionRef.active
    /\ webrtc'.peerConnectionRef = webrtc.peerConnectionRef
    /\ webrtc'.calls = webrtc.calls
    /\ webrtc'.sockets = webrtc.sockets
    /\ webrtc'.ended = webrtc.ended
    /\ webrtc.reconnectTimeoutRef.pending => webrtc'.reconnectTimeoutRef.pending
    /\ webrtc'.connectionState \in {"failed", "disconnected"}
    /\ webrtc' # webrtc

\* The peer connection reported connected.
PeerConnected ==
    /\ webrtc.peerConnectionRef.open
    /\ webrtc'.peerConnectionRef = webrtc.peerConnectionRef
    /\ webrtc'.calls = webrtc.calls
    /\ webrtc'.sockets = webrtc.sockets
    /\ webrtc'.ended = webrtc.ended
    /\ webrtc'.reconnectTimeoutRef = webrtc.reconnectTimeoutRef
    /\ webrtc'.connectionState = "connected"
    /\ webrtc' # webrtc

\* A signaling WebSocket opened.
SocketOpened ==
    \E id \in Live(webrtc) \cap Live(webrtc') :
        /\ webrtc.sockets[id].readyState = "CONNECTING"
        /\ webrtc'.sockets[id].readyState = "OPEN"

\* C32: reconnectAttemptsRef never exceeds maxReconnectAttempts; once it has
\* reached it nothing is scheduled any more, and a reconnect that is asked for
\* then sets the error and ends the call; it is 0 again when a signaling
\* WebSocket opens and when the peer connection is connected.
C32_ReconnectAttemptsBounded ==
    [][/\ webrtc'.reconnectAttemptsRef <= maxReconnectAttempts
       /\ webrtc.reconnectAttemptsRef >= maxReconnectAttempts
            => \/ ~webrtc'.reconnectTimeoutRef.pending
               \/ webrtc'.reconnectTimeoutRef = webrtc.reconnectTimeoutRef
       /\ (PeerLost /\ webrtc.reconnectAttemptsRef >= maxReconnectAttempts)
            => /\ webrtc'.reconnectAttemptsRef = webrtc.reconnectAttemptsRef
               /\ webrtc'.error = "Failed to reconnect after multiple attempts"
               /\ ~webrtc'.isCallActive
       /\ SocketOpened => webrtc'.reconnectAttemptsRef = 0
       /\ PeerConnected => webrtc'.reconnectAttemptsRef = 0]_vars

\* The reconnect that was asked for after the fifth attempt gave up.
C32_Witness ==
    /\ webrtc.reconnectAttemptsRef = maxReconnectAttempts
    /\ webrtc.error = "Failed to reconnect after multiple attempts"
    /\ ~webrtc.isCallActive
    /\ webrtc.peerConnectionRef.open

\* C33: when the signaling WebSocket of websocketRef closes while
\* isCallActive holds and fewer than maxReconnectAttempts attempts were made,
\* the attempt is counted and a reconnect timer is pending.
C33_CloseSchedulesReconnect ==
    [][(/\ webrtc.websocketRef \in Live(webrtc)
        /\ webrtc.websocketRef \notin Live(webrtc')
        /\ webrtc.isCallActive
        /\ webrtc.reconnectAttemptsRef < maxReconnectAttempts)
          => /\ webrtc'.reconnectTimeoutRef.pending
             /\ webrtc'.reconnectAttemptsRef = webrtc.reconnectAttemptsRef + 1]_vars

\* C34: after endCall and until the next startCall no reconnect timer is
\* pending and no signaling WebSocket has been made.
C34_NoReconnectAfterEndCall ==
    webrtc.ended
       => /\ ~webrtc.reconnectTimeoutRef.pending
          /\ ~webrtc.afterEnd

\* C35: the end-session message of endCall carries the session id the server
\* gave in session-created on that socket.
C35_EndSessionCarriesSessionId ==
    (webrtc.endSession.sent /\ webrtc.endSession.assigned # 0)
       => webrtc.endSession.sessionId = webrtc.endSession.assigned

\* C36: a startCall whose call has ended never sends its start-session on
\* the WebSocket of a later call.
C36_OneStartSessionOnOwnSocket ==
    \A c \in DOMAIN webrtc.calls : ~webrtc.calls[c].foreign

\* C37: useSimplePipecatClient captures the microphone at most once in a
\* call, and when endCall is through and no capture waits for getUserMedia,
\* no media stream is left unstopped and no audio context unclosed.
C37_OneCaptureAllReleased ==
    /\ \A c \in 1..MaxCalls : simple.captures[c] <= 1
    /\ (/\ simple.ended /\ ~simple.ending
        /\ \A c \in 1..MaxCalls : simple.pending[c] = 0)
         => /\ ~simple.streams /\ ~simple.localStreamRef
            /\ ~simple.contexts /\ simple.audioContextRef # "open"

\* C38: in each of the three Pipecat clients connectionState 'disconnected'
\* implies that isCallActive is false.
C38_DisconnectedNotActive ==
    /\ simple.connectionState = "disconnected" => ~simple.isCallActive
    /\ pipecat.connectionState = "disconnected" => ~pipecat.isCallActive
    /\ component.connectionState = "disconnected" => ~component.isCallActive

\* A call of useSimplePipecatClient that its WebSocket's close ended.
C38_Witness ==
    /\ simple.calls > 0 /\ ~simple.ended
    /\ simple.connectionState = "disconnected"

\* C39: in useSimplePipecatClient the close event of the WebSocket that
\* endCall closed changes neither connectionState nor isCallActive once a
\* later call was started.
C39_LateCloseLeavesLaterCall ==
    [][\A id \in DOMAIN simple.sockets :
          (/\ simple.sockets[id].readyState = "CLOSING"
           /\ id < simple.calls
           /\ ~simple.ended
           /\ id \notin DOMAIN simple'.sockets)
             => /\ simple'.connectionState = simple.connectionState
                /\ simple'.isCallActive = simple.isCallActive]_vars

====
